---------------------------- MODULE Spec2Model ----------------------------
(***************************************************************************)
(* styledtext: conversion of single characters between plain ASCII/Greek   *)
(* letters and digits and the styled Mathematical Alphanumeric Symbols.    *)
(*                                                                         *)
(* A character is its Unicode code point (a natural number).               *)
(* Option<(u32, u32)> is the empty tuple for None and <<upper, lower>> for *)
(* Some((upper, lower)).  Result<char, LetterTypeError> is a record with   *)
(* tag "Ok" (val = the character), tag "Err" (err = the variant of         *)
(* LetterTypeError, val = its payload) or tag "Panic" (the call aborted:   *)
(* an unwrap of None or an index past the end of a vector).                *)
(***************************************************************************)
EXTENDS Integers, Sequences, FiniteSets, TLC

VARIABLES
    pc,                  \* "idle" before a call, "done" after it returned
    call,                \* which entry point was called
    ch,                  \* the character given to convert (NoChar: none)
    letter_type,         \* the requested StyledLetter
    letter_style,        \* the requested LetterStyle
    info,                \* the CharacterInfo the call worked on
    result,              \* what the call returned
    binary_search_impl,  \* which slice::binary_search the build links
    input,               \* bin.rs main: args.text, as its sequence of chars
    consumed,            \* bin.rs main: how many chars input.chars() has yielded
    res,                 \* bin.rs main: the String res, as its sequence of chars
    stderr,              \* bin.rs main: the eprintln! reports, in order
    stdout,              \* bin.rs main: the println! lines, in order
    ascii,               \* bin.rs main: args.ascii, the flag --ascii
    callers,             \* concurrent callers of convert: each one's call
    history              \* concurrent callers: the calls that have returned

\* the variables of one call
call_vars == <<pc, call, ch, letter_type, letter_style, info, result, binary_search_impl>>

\* the variables of the binary's main
main_vars == <<input, consumed, res, stderr, stdout, ascii>>

\* the variables of the concurrent callers
calls_vars == <<callers, history>>

vars == <<call_vars, main_vars, calls_vars>>

(***************************************************************************)
(* Bounds of the model.                                                    *)
(***************************************************************************)
\* input characters are taken from every known block widened by Pad code
\* points on both sides
Pad == 3

\* the binary's text argument has at most MaxLen characters
MaxLen == 3

\* the number of threads that call convert concurrently
NumThreads == 2
\* offsets given to LetterInfo::new directly range over 0..MaxOffset
MaxOffset == 33

(***************************************************************************)
(* Enumerations (src/src/letter.rs 4-53).                                  *)
(***************************************************************************)
CharacterType == {"Letter", "Digit", "Greek", "Other"}

StyledLetter == {"Serif", "SansSerif", "Script", "Fraktur", "MonoSpace", "DoubleStruck"}

LetterStyle == {"Normal", "Bold", "Italic", "BoldItalic"}

LetterTypeError == {"ExceedLengthError", "InvalidTypeError", "InvalidStyleError", "InvalidCodeError"}

None == << >>

Ok(c) == [tag |-> "Ok", val |-> c, err |-> "none"]

Err(e, v) == [tag |-> "Err", val |-> v, err |-> e]

Panic(why) == [tag |-> "Panic", val |-> 0, err |-> why]

NoResult == [tag |-> "NoResult", val |-> 0, err |-> "none"]

\* char::from_u32: None for a surrogate and for a value above U+10FFFF
char_from_u32(x) ==
    IF x >= 0 /\ x <= 1114111 /\ ~(x >= 55296 /\ x <= 57343) THEN <<x>> ELSE None

\* Ok(char::from_u32(x).unwrap()): the unwrap of None aborts the call
from_u32_unwrap(x) ==
    IF char_from_u32(x) # None THEN Ok(char_from_u32(x)[1])
    ELSE Panic("unwrap on None")

\* Ok(chs[index]) on a Vec<char>, index counted from 0: an index past the end
\* aborts the call
vec_index(chs, index) ==
    IF index < Len(chs) THEN Ok(chs[index + 1])
    ELSE Panic("index out of bounds")

(***************************************************************************)
(* slice::binary_search of the standard library, as the code calls it.     *)
(* The code also calls it on vectors that are not sorted, where the result *)
(* is unspecified: it is whatever the linked implementation computes.  Two *)
(* implementations have shipped with the toolchains that build this crate: *)
(* the one that returns as soon as a probe compares equal, and the         *)
(* branchless one that compares for equality once, at the end.             *)
(* The result is <<index>> (from 0) for Ok(index) and None for Err(_).     *)
(***************************************************************************)
BinarySearchImpls == {"early_return", "branchless"}

RECURSIVE binary_search_early_return(_, _, _, _)
binary_search_early_return(v, x, left, right) ==
    IF left < right
    THEN LET mid == left + ((right - left) \div 2)
         IN  IF v[mid + 1] < x THEN binary_search_early_return(v, x, mid + 1, right)
             ELSE IF v[mid + 1] > x THEN binary_search_early_return(v, x, left, mid)
             ELSE <<mid>>
    ELSE None

RECURSIVE binary_search_branchless(_, _, _, _)
binary_search_branchless(v, x, base, size) ==
    IF size > 1
    THEN LET half == size \div 2
             mid == base + half
         IN  binary_search_branchless(v, x, IF v[mid + 1] > x THEN base ELSE mid,
                                      size - half)
    ELSE IF v[base + 1] = x THEN <<base>> ELSE None

binary_search(v, x) ==
    IF Len(v) = 0 THEN None
    ELSE IF binary_search_impl = "early_return" THEN binary_search_early_return(v, x, 0, Len(v))
    ELSE binary_search_branchless(v, x, 0, Len(v))

(***************************************************************************)
(* The style types (src/src/letter.rs 64-1125).  Each X_new is the record  *)
(* X::new() builds; each X_normal, X_bold, X_italic, X_bold_italic is the  *)
(* method of that name.  Most methods have one of two bodies:              *)
(*   styled_char: check the offset, then base + offset of the start pair;  *)
(*   no_style:    check the offset, then Err(InvalidStyleError).           *)
(***************************************************************************)
styled_char(number, start, offset, uppercase) ==
    IF offset >= number THEN Err("ExceedLengthError", offset)
    ELSE IF start # None
         THEN IF uppercase THEN from_u32_unwrap(start[1] + offset)
              ELSE from_u32_unwrap(start[2] + offset)
    ELSE Err("InvalidStyleError", 0)

\* a method of an empty slot that answers before it tests the offset
no_style_unchecked(number, offset) ==
    Err("InvalidStyleError", 0)

no_style(number, offset) ==
    IF offset >= number THEN Err("ExceedLengthError", offset)
    ELSE Err("InvalidStyleError", 0)

\* ---- SerifType (letter.rs 109-190)
SerifType_new ==
    [number |-> 26,
     normal_start |-> <<65, 97>>,  \* 41, 61
     bold_start |-> <<119808, 119834>>,  \* 1D400, 1D41A
     italic_start |-> <<119860, 119886>>,  \* 1D434, 1D44E
     bold_italic_start |-> <<119912, 119938>>]  \* 1D468, 1D482

SerifType_normal(offset, uppercase) ==
    styled_char(SerifType_new.number, SerifType_new.normal_start, offset, uppercase)

SerifType_bold(offset, uppercase) ==
    styled_char(SerifType_new.number, SerifType_new.bold_start, offset, uppercase)

\* SerifType::italic without the special case of h
SerifType_italic_no_planck(offset, uppercase) ==
    styled_char(SerifType_new.number, SerifType_new.italic_start, offset, uppercase)

SerifType_italic(offset, uppercase) ==
    IF offset >= SerifType_new.number THEN Err("ExceedLengthError", offset)
    ELSE IF SerifType_new.italic_start # None
         THEN IF uppercase THEN from_u32_unwrap(SerifType_new.italic_start[1] + offset)
              ELSE IF offset = 7 THEN Ok(8462)
              ELSE from_u32_unwrap(SerifType_new.italic_start[2] + offset)
    ELSE Err("InvalidStyleError", 0)

SerifType_bold_italic(offset, uppercase) ==
    styled_char(SerifType_new.number, SerifType_new.bold_italic_start, offset, uppercase)

\* ---- SansSerifType (letter.rs 203-277)
SansSerifType_new ==
    [number |-> 26,
     normal_start |-> <<120224, 120250>>,  \* 1D5A0, 1D5BA
     bold_start |-> <<120276, 120302>>,  \* 1D5D4, 1D5EE
     italic_start |-> <<120328, 120354>>,  \* 1D608, 1D622
     bold_italic_start |-> <<120380, 120406>>]  \* 1D63C, 1D656

SansSerifType_normal(offset, uppercase) ==
    styled_char(SansSerifType_new.number, SansSerifType_new.normal_start, offset, uppercase)

SansSerifType_bold(offset, uppercase) ==
    styled_char(SansSerifType_new.number, SansSerifType_new.bold_start, offset, uppercase)

\* SansSerifType::italic reading the bold start pair
SansSerifType_italic_from_bold(offset, uppercase) ==
    styled_char(SansSerifType_new.number, SansSerifType_new.bold_start, offset, uppercase)

SansSerifType_italic(offset, uppercase) ==
    styled_char(SansSerifType_new.number, SansSerifType_new.italic_start, offset, uppercase)

SansSerifType_bold_italic(offset, uppercase) ==
    styled_char(SansSerifType_new.number, SansSerifType_new.bold_italic_start, offset, uppercase)

\* ---- ScriptType (letter.rs 291-401)
ScriptType_new ==
    [number |-> 26,
     normal_start |-> <<119964, 119990>>,  \* 1D49C, 1D4B6
     bold_start |-> <<120016, 120042>>,  \* 1D4D0, 1D4EA
     italic_start |-> None,
     bold_italic_start |-> None]

\* ScriptType::get_normal_corner_case with the uppercase offsets of the
\* crate's test (9 where the table has 8)
ScriptType_get_normal_corner_case_nine(uppercase) ==
    IF uppercase
    THEN << <<1, 4, 5, 7, 9, 11, 12, 17>>,
            <<8492, 8496, 8497, 8459, 8464, 8466, 8499, 8475>> >>
    ELSE << <<4, 6, 14>>, <<8495, 8458, 8500>> >>

\* <<offsets, characters>>: uppercase 212C 2130 2131 210B 2110 2112 2133 211B,
\* lowercase 212F 210A 2134
ScriptType_get_normal_corner_case(uppercase) ==
    IF uppercase
    THEN << <<1, 4, 5, 7, 8, 11, 12, 17>>,
            <<8492, 8496, 8497, 8459, 8464, 8466, 8499, 8475>> >>
    ELSE << <<4, 6, 14>>, <<8495, 8458, 8500>> >>

\* ScriptType::normal without the corner-case lookup
ScriptType_normal_arithmetic(offset, uppercase) ==
    styled_char(ScriptType_new.number, ScriptType_new.normal_start, offset, uppercase)

ScriptType_normal(offset, uppercase) ==
    IF offset >= ScriptType_new.number THEN Err("ExceedLengthError", offset)
    ELSE IF ScriptType_new.normal_start # None
         THEN LET corner == ScriptType_get_normal_corner_case(uppercase)
                  index == binary_search(corner[1], offset)
              IN  IF index # None THEN vec_index(corner[2], index[1])
                  ELSE IF uppercase
                       THEN from_u32_unwrap(ScriptType_new.normal_start[1] + offset)
                       ELSE from_u32_unwrap(ScriptType_new.normal_start[2] + offset)
    ELSE Err("InvalidStyleError", 0)

ScriptType_bold(offset, uppercase) ==
    styled_char(ScriptType_new.number, ScriptType_new.bold_start, offset, uppercase)

ScriptType_italic(offset, uppercase) ==
    no_style(ScriptType_new.number, offset)

ScriptType_bold_italic(offset, uppercase) ==
    no_style(ScriptType_new.number, offset)

\* ---- FrakturType (letter.rs 414-498)
FrakturType_new ==
    [number |-> 26,
     normal_start |-> <<120068, 120094>>,  \* 1D504, 1D51E
     bold_start |-> <<120172, 120198>>,  \* 1D56C, 1D586
     italic_start |-> None,
     bold_italic_start |-> None]

\* FrakturType::get_normal_corner_case with the last character left out
FrakturType_get_normal_corner_case_short ==
    << <<2, 7, 8, 17, 25>>, <<8493, 8460, 8465, 8476>> >>

\* <<offsets, characters>>: 212D 210C 2111 211C 2128
FrakturType_get_normal_corner_case ==
    << <<2, 7, 8, 17, 25>>, <<8493, 8460, 8465, 8476, 8488>> >>

\* FrakturType::normal that looks the corner cases up for both cases
FrakturType_normal_any_case(offset, uppercase) ==
    IF offset >= FrakturType_new.number THEN Err("ExceedLengthError", offset)
    ELSE LET corner == FrakturType_get_normal_corner_case
             index == binary_search(corner[1], offset)
         IN  IF index # None THEN vec_index(corner[2], index[1])
             ELSE IF uppercase
                  THEN from_u32_unwrap(FrakturType_new.normal_start[1] + offset)
                  ELSE from_u32_unwrap(FrakturType_new.normal_start[2] + offset)

FrakturType_normal(offset, uppercase) ==
    IF offset >= FrakturType_new.number THEN Err("ExceedLengthError", offset)
    ELSE IF FrakturType_new.normal_start # None
         THEN IF uppercase
              THEN LET corner == FrakturType_get_normal_corner_case
                       index == binary_search(corner[1], offset)
                   IN  IF index # None THEN vec_index(corner[2], index[1])
                       ELSE from_u32_unwrap(FrakturType_new.normal_start[1] + offset)
              ELSE from_u32_unwrap(FrakturType_new.normal_start[2] + offset)
    ELSE Err("InvalidStyleError", 0)

FrakturType_bold(offset, uppercase) ==
    styled_char(FrakturType_new.number, FrakturType_new.bold_start, offset, uppercase)

FrakturType_italic(offset, uppercase) ==
    no_style(FrakturType_new.number, offset)

FrakturType_bold_italic(offset, uppercase) ==
    no_style(FrakturType_new.number, offset)

\* ---- MonoSpaceType (letter.rs 511-564)
MonoSpaceType_new ==
    [number |-> 26,
     normal_start |-> <<120432, 120458>>,  \* 1D670, 1D68A
     bold_start |-> None,
     italic_start |-> None,
     bold_italic_start |-> None]

\* MonoSpaceType::normal with the body of the styles MonoSpace lacks
MonoSpaceType_normal_no_style(offset, uppercase) ==
    no_style(MonoSpaceType_new.number, offset)

MonoSpaceType_normal(offset, uppercase) ==
    styled_char(MonoSpaceType_new.number, MonoSpaceType_new.normal_start, offset, uppercase)

MonoSpaceType_bold(offset, uppercase) ==
    no_style(MonoSpaceType_new.number, offset)

MonoSpaceType_italic(offset, uppercase) ==
    no_style(MonoSpaceType_new.number, offset)

MonoSpaceType_bold_italic(offset, uppercase) ==
    no_style(MonoSpaceType_new.number, offset)

\* ---- DoubleStruckType (letter.rs 577-656)
DoubleStruckType_new ==
    [number |-> 26,
     normal_start |-> None,
     bold_start |-> <<120120, 120146>>,  \* 1D538, 1D552
     italic_start |-> None,
     bold_italic_start |-> None]

DoubleStruckType_normal(offset, uppercase) ==
    no_style(DoubleStruckType_new.number, offset)

\* <<indices, chars>>: 2102 210D 2115 2119 211A 211D 2124
DoubleStruckType_get_bold_corner_case ==
    << <<2, 7, 13, 15, 16, 17, 25>>,
       <<8450, 8461, 8469, 8473, 8474, 8477, 8484>> >>

\* DoubleStruckType::bold without the corner-case lookup
DoubleStruckType_bold_arithmetic(offset, uppercase) ==
    styled_char(DoubleStruckType_new.number, DoubleStruckType_new.bold_start, offset, uppercase)

DoubleStruckType_bold(offset, uppercase) ==
    IF offset >= DoubleStruckType_new.number THEN Err("ExceedLengthError", offset)
    ELSE IF DoubleStruckType_new.bold_start # None
         THEN IF uppercase
              THEN LET corner == DoubleStruckType_get_bold_corner_case
                       idx == binary_search(corner[1], offset)
                   IN  IF idx # None THEN vec_index(corner[2], idx[1])
                       ELSE from_u32_unwrap(DoubleStruckType_new.bold_start[1] + offset)
              ELSE from_u32_unwrap(DoubleStruckType_new.bold_start[2] + offset)
    ELSE Err("InvalidStyleError", 0)

DoubleStruckType_italic(offset, uppercase) ==
    no_style(DoubleStruckType_new.number, offset)

DoubleStruckType_bold_italic(offset, uppercase) ==
    no_style(DoubleStruckType_new.number, offset)

\* ---- GreekType (letter.rs 669-774)
GreekType_new ==
    [number |-> 26,
     normal_start |-> <<913, 945>>,  \* 391, 3B1
     bold_start |-> <<120488, 120514>>,  \* 1D6A8, 1D6C2
     italic_start |-> <<120546, 120572>>,  \* 1D6E2, 1D6FC
     bold_italic_start |-> <<120604, 120630>>]  \* 1D71C, 1D736

\* <<offsets, characters>>: uppercase 03F4 2207,
\* lowercase 2202 03F5 03D1 03F0 03D5 03F1 03D6
GreekType_get_normal_corner_case(uppercase) ==
    IF uppercase
    THEN << <<17, 25>>, <<1012, 8711>> >>
    ELSE << <<25, 26, 27, 28, 29, 30, 31>>,
            <<8706, 1013, 977, 1008, 981, 1009, 982>> >>

GreekType_normal(offset, uppercase) ==
    IF offset >= GreekType_new.number THEN Err("ExceedLengthError", offset)
    ELSE IF GreekType_new.normal_start # None
         THEN LET corner == GreekType_get_normal_corner_case(uppercase)
                  idx == binary_search(corner[1], offset)
              IN  IF idx # None THEN vec_index(corner[2], idx[1])
                  ELSE IF uppercase
                       THEN from_u32_unwrap(GreekType_new.normal_start[1] + offset)
                       ELSE from_u32_unwrap(GreekType_new.normal_start[2] + offset)
    ELSE Err("InvalidStyleError", 0)

GreekType_bold(offset, uppercase) ==
    styled_char(GreekType_new.number, GreekType_new.bold_start, offset, uppercase)

GreekType_italic(offset, uppercase) ==
    styled_char(GreekType_new.number, GreekType_new.italic_start, offset, uppercase)

GreekType_bold_italic(offset, uppercase) ==
    styled_char(GreekType_new.number, GreekType_new.bold_italic_start, offset, uppercase)

\* ---- GreekSansSerifType (letter.rs 787-847)
GreekSansSerifType_new ==
    [number |-> 26,
     normal_start |-> None,
     bold_start |-> <<120662, 120688>>,  \* 1D756, 1D770
     italic_start |-> None,
     bold_italic_start |-> <<120720, 120746>>]  \* 1D790, 1D7AA

GreekSansSerifType_normal(offset, uppercase) ==
    no_style(GreekSansSerifType_new.number, offset)

GreekSansSerifType_bold(offset, uppercase) ==
    styled_char(GreekSansSerifType_new.number, GreekSansSerifType_new.bold_start, offset, uppercase)

GreekSansSerifType_italic(offset, uppercase) ==
    no_style(GreekSansSerifType_new.number, offset)

GreekSansSerifType_bold_italic(offset, uppercase) ==
    styled_char(GreekSansSerifType_new.number, GreekSansSerifType_new.bold_italic_start, offset, uppercase)

\* ---- DigitType (letter.rs 860-920)
DigitType_new ==
    [number |-> 10,
     normal_start |-> <<48, 48>>,  \* 30, 30
     bold_start |-> <<120782, 120782>>,  \* 1D7CE, 1D7CE
     italic_start |-> None,
     bold_italic_start |-> None]

DigitType_normal(offset, uppercase) ==
    styled_char(DigitType_new.number, DigitType_new.normal_start, offset, uppercase)

DigitType_bold(offset, uppercase) ==
    styled_char(DigitType_new.number, DigitType_new.bold_start, offset, uppercase)

DigitType_italic(offset, uppercase) ==
    no_style(DigitType_new.number, offset)

DigitType_bold_italic(offset, uppercase) ==
    no_style(DigitType_new.number, offset)

\* ---- DigitDoubleStruckType (letter.rs 933-986)
DigitDoubleStruckType_new ==
    [number |-> 10,
     normal_start |-> <<120792, 120792>>,  \* 1D7D8, 1D7D8
     bold_start |-> None,
     italic_start |-> None,
     bold_italic_start |-> None]

DigitDoubleStruckType_normal(offset, uppercase) ==
    styled_char(DigitDoubleStruckType_new.number, DigitDoubleStruckType_new.normal_start, offset, uppercase)

DigitDoubleStruckType_bold(offset, uppercase) ==
    no_style(DigitDoubleStruckType_new.number, offset)

DigitDoubleStruckType_italic(offset, uppercase) ==
    no_style(DigitDoubleStruckType_new.number, offset)

DigitDoubleStruckType_bold_italic(offset, uppercase) ==
    no_style(DigitDoubleStruckType_new.number, offset)

\* ---- DigitSansSerifType (letter.rs 999-1059)
\* DigitSansSerifType::new with the bold start copied from the normal start
DigitSansSerifType_new_bold_is_normal ==
    [number |-> 10,
     normal_start |-> <<120802, 120802>>,
     bold_start |-> <<120802, 120802>>,
     italic_start |-> None,
     bold_italic_start |-> None]

DigitSansSerifType_new ==
    [number |-> 10,
     normal_start |-> <<120802, 120802>>,  \* 1D7E2, 1D7E2
     bold_start |-> <<120812, 120812>>,  \* 1D7EC, 1D7EC
     italic_start |-> None,
     bold_italic_start |-> None]

DigitSansSerifType_normal(offset, uppercase) ==
    styled_char(DigitSansSerifType_new.number, DigitSansSerifType_new.normal_start, offset, uppercase)

DigitSansSerifType_bold(offset, uppercase) ==
    styled_char(DigitSansSerifType_new.number, DigitSansSerifType_new.bold_start, offset, uppercase)

DigitSansSerifType_italic(offset, uppercase) ==
    no_style(DigitSansSerifType_new.number, offset)

DigitSansSerifType_bold_italic(offset, uppercase) ==
    no_style(DigitSansSerifType_new.number, offset)

\* ---- DigitMonoSpaceType (letter.rs 1072-1125)
DigitMonoSpaceType_new ==
    [number |-> 10,
     normal_start |-> <<120822, 120822>>,  \* 1D7F6, 1D7F6
     bold_start |-> None,
     italic_start |-> None,
     bold_italic_start |-> None]

DigitMonoSpaceType_normal(offset, uppercase) ==
    styled_char(DigitMonoSpaceType_new.number, DigitMonoSpaceType_new.normal_start, offset, uppercase)

DigitMonoSpaceType_bold(offset, uppercase) ==
    no_style(DigitMonoSpaceType_new.number, offset)

DigitMonoSpaceType_italic(offset, uppercase) ==
    no_style(DigitMonoSpaceType_new.number, offset)

DigitMonoSpaceType_bold_italic(offset, uppercase) ==
    no_style(DigitMonoSpaceType_new.number, offset)


(***************************************************************************)
(* TypeStyle::get_char (the impl_type_style macro, letter.rs 76-107): the  *)
(* style selects the method, self selects the type that implements it.     *)
(***************************************************************************)
normal(self, offset, uppercase) ==
    CASE self = "SerifType" -> SerifType_normal(offset, uppercase)
      [] self = "SansSerifType" -> SansSerifType_normal(offset, uppercase)
      [] self = "ScriptType" -> ScriptType_normal(offset, uppercase)
      [] self = "FrakturType" -> FrakturType_normal(offset, uppercase)
      [] self = "MonoSpaceType" -> MonoSpaceType_normal(offset, uppercase)
      [] self = "DoubleStruckType" -> DoubleStruckType_normal(offset, uppercase)
      [] self = "GreekType" -> GreekType_normal(offset, uppercase)
      [] self = "GreekSansSerifType" -> GreekSansSerifType_normal(offset, uppercase)
      [] self = "DigitType" -> DigitType_normal(offset, uppercase)
      [] self = "DigitSansSerifType" -> DigitSansSerifType_normal(offset, uppercase)
      [] self = "DigitMonoSpaceType" -> DigitMonoSpaceType_normal(offset, uppercase)
      [] self = "DigitDoubleStruckType" -> DigitDoubleStruckType_normal(offset, uppercase)

bold(self, offset, uppercase) ==
    CASE self = "SerifType" -> SerifType_bold(offset, uppercase)
      [] self = "SansSerifType" -> SansSerifType_bold(offset, uppercase)
      [] self = "ScriptType" -> ScriptType_bold(offset, uppercase)
      [] self = "FrakturType" -> FrakturType_bold(offset, uppercase)
      [] self = "MonoSpaceType" -> MonoSpaceType_bold(offset, uppercase)
      [] self = "DoubleStruckType" -> DoubleStruckType_bold(offset, uppercase)
      [] self = "GreekType" -> GreekType_bold(offset, uppercase)
      [] self = "GreekSansSerifType" -> GreekSansSerifType_bold(offset, uppercase)
      [] self = "DigitType" -> DigitType_bold(offset, uppercase)
      [] self = "DigitSansSerifType" -> DigitSansSerifType_bold(offset, uppercase)
      [] self = "DigitMonoSpaceType" -> DigitMonoSpaceType_bold(offset, uppercase)
      [] self = "DigitDoubleStruckType" -> DigitDoubleStruckType_bold(offset, uppercase)

italic(self, offset, uppercase) ==
    CASE self = "SerifType" -> SerifType_italic(offset, uppercase)
      [] self = "SansSerifType" -> SansSerifType_italic(offset, uppercase)
      [] self = "ScriptType" -> ScriptType_italic(offset, uppercase)
      [] self = "FrakturType" -> FrakturType_italic(offset, uppercase)
      [] self = "MonoSpaceType" -> MonoSpaceType_italic(offset, uppercase)
      [] self = "DoubleStruckType" -> DoubleStruckType_italic(offset, uppercase)
      [] self = "GreekType" -> GreekType_italic(offset, uppercase)
      [] self = "GreekSansSerifType" -> GreekSansSerifType_italic(offset, uppercase)
      [] self = "DigitType" -> DigitType_italic(offset, uppercase)
      [] self = "DigitSansSerifType" -> DigitSansSerifType_italic(offset, uppercase)
      [] self = "DigitMonoSpaceType" -> DigitMonoSpaceType_italic(offset, uppercase)
      [] self = "DigitDoubleStruckType" -> DigitDoubleStruckType_italic(offset, uppercase)

bold_italic(self, offset, uppercase) ==
    CASE self = "SerifType" -> SerifType_bold_italic(offset, uppercase)
      [] self = "SansSerifType" -> SansSerifType_bold_italic(offset, uppercase)
      [] self = "ScriptType" -> ScriptType_bold_italic(offset, uppercase)
      [] self = "FrakturType" -> FrakturType_bold_italic(offset, uppercase)
      [] self = "MonoSpaceType" -> MonoSpaceType_bold_italic(offset, uppercase)
      [] self = "DoubleStruckType" -> DoubleStruckType_bold_italic(offset, uppercase)
      [] self = "GreekType" -> GreekType_bold_italic(offset, uppercase)
      [] self = "GreekSansSerifType" -> GreekSansSerifType_bold_italic(offset, uppercase)
      [] self = "DigitType" -> DigitType_bold_italic(offset, uppercase)
      [] self = "DigitSansSerifType" -> DigitSansSerifType_bold_italic(offset, uppercase)
      [] self = "DigitMonoSpaceType" -> DigitMonoSpaceType_bold_italic(offset, uppercase)
      [] self = "DigitDoubleStruckType" -> DigitDoubleStruckType_bold_italic(offset, uppercase)

get_char(self, offset, style, uppercase) ==
    CASE style = "Normal" -> normal(self, offset, uppercase)
      [] style = "Italic" -> italic(self, offset, uppercase)
      [] style = "Bold" -> bold(self, offset, uppercase)
      [] style = "BoldItalic" -> bold_italic(self, offset, uppercase)

(***************************************************************************)
(* LetterInfo and CharacterInfo (letter.rs 1127-1139, 1539-1553).  One     *)
(* record shape serves both variants of CharacterInfo: kind "Letter"       *)
(* carries the LetterInfo fields, kind "Other" carries the character.      *)
(***************************************************************************)
NoChar == -1

LetterInfo_new(offset, uppercase, l_type, l_style, character_type) ==
    [kind |-> "Letter", offset |-> offset, uppercase |-> uppercase,
     letter_type |-> l_type, letter_style |-> l_style,
     character_type |-> character_type, ch |-> NoChar]

Other(c) ==
    [kind |-> "Other", offset |-> 0, uppercase |-> FALSE,
     letter_type |-> "none", letter_style |-> "none",
     character_type |-> "none", ch |-> c]

NoInfo ==
    [kind |-> "None", offset |-> 0, uppercase |-> FALSE,
     letter_type |-> "none", letter_style |-> "none",
     character_type |-> "none", ch |-> NoChar]

(***************************************************************************)
(* CharacterInfo::get_letter_info (letter.rs 1142-1535).  RangeArms holds  *)
(* the range arms of the match in source order; the first arm that         *)
(* contains the character is taken, the `_` arm is the corner-case         *)
(* fallback.                                                               *)
(***************************************************************************)
RangeArms ==
    <<
      \* 1146: 0041..=005A
      [lo |-> 65, hi |-> 90, start |-> 65, uppercase |-> TRUE,
       letter_type |-> "Serif", letter_style |-> "Normal", character_type |-> "Letter"],
      \* 1153: 1D400..=1D419
      [lo |-> 119808, hi |-> 119833, start |-> 119808, uppercase |-> TRUE,
       letter_type |-> "Serif", letter_style |-> "Bold", character_type |-> "Letter"],
      \* 1160: 1D434..=1D44D
      [lo |-> 119860, hi |-> 119885, start |-> 119860, uppercase |-> TRUE,
       letter_type |-> "Serif", letter_style |-> "Italic", character_type |-> "Letter"],
      \* 1167: 1D468..=1D481
      [lo |-> 119912, hi |-> 119937, start |-> 119912, uppercase |-> TRUE,
       letter_type |-> "Serif", letter_style |-> "BoldItalic", character_type |-> "Letter"],
      \* 1175: 1D5A0..=1D5B9
      [lo |-> 120224, hi |-> 120249, start |-> 120224, uppercase |-> TRUE,
       letter_type |-> "SansSerif", letter_style |-> "Normal", character_type |-> "Letter"],
      \* 1182: 1D5D4..=1D5ED
      [lo |-> 120276, hi |-> 120301, start |-> 120276, uppercase |-> TRUE,
       letter_type |-> "SansSerif", letter_style |-> "Bold", character_type |-> "Letter"],
      \* 1189: 1D608..=1D621
      [lo |-> 120328, hi |-> 120353, start |-> 120328, uppercase |-> TRUE,
       letter_type |-> "SansSerif", letter_style |-> "Italic", character_type |-> "Letter"],
      \* 1196: 1D63C..=1D655
      [lo |-> 120380, hi |-> 120405, start |-> 120380, uppercase |-> TRUE,
       letter_type |-> "SansSerif", letter_style |-> "BoldItalic", character_type |-> "Letter"],
      \* 1204: 1D49C..=1D4B5
      [lo |-> 119964, hi |-> 119989, start |-> 119964, uppercase |-> TRUE,
       letter_type |-> "Script", letter_style |-> "Normal", character_type |-> "Letter"],
      \* 1211: 1D4D0..=1D4E9
      [lo |-> 120016, hi |-> 120041, start |-> 120016, uppercase |-> TRUE,
       letter_type |-> "Script", letter_style |-> "Bold", character_type |-> "Letter"],
      \* 1219: 1D504..=1D51D
      [lo |-> 120068, hi |-> 120093, start |-> 120068, uppercase |-> TRUE,
       letter_type |-> "Fraktur", letter_style |-> "Normal", character_type |-> "Letter"],
      \* 1226: 1D56C..=1D585
      [lo |-> 120172, hi |-> 120197, start |-> 120172, uppercase |-> TRUE,
       letter_type |-> "Fraktur", letter_style |-> "Bold", character_type |-> "Letter"],
      \* 1234: 1D670..=1D689
      [lo |-> 120432, hi |-> 120457, start |-> 120432, uppercase |-> TRUE,
       letter_type |-> "MonoSpace", letter_style |-> "Normal", character_type |-> "Letter"],
      \* 1242: 1D538..=1D551
      [lo |-> 120120, hi |-> 120145, start |-> 120120, uppercase |-> TRUE,
       letter_type |-> "DoubleStruck", letter_style |-> "Bold", character_type |-> "Letter"],
      \* 1250: 0391..=03AA
      [lo |-> 913, hi |-> 938, start |-> 913, uppercase |-> TRUE,
       letter_type |-> "Serif", letter_style |-> "Normal", character_type |-> "Greek"],
      \* 1257: 1D6A8..=1D6C1
      [lo |-> 120488, hi |-> 120513, start |-> 120488, uppercase |-> TRUE,
       letter_type |-> "Serif", letter_style |-> "Bold", character_type |-> "Greek"],
      \* 1264: 1D6E2..=1D6FB
      [lo |-> 120546, hi |-> 120571, start |-> 120546, uppercase |-> TRUE,
       letter_type |-> "Serif", letter_style |-> "Italic", character_type |-> "Greek"],
      \* 1271: 1D71C..=1D735
      [lo |-> 120604, hi |-> 120629, start |-> 120604, uppercase |-> TRUE,
       letter_type |-> "Serif", letter_style |-> "BoldItalic", character_type |-> "Greek"],
      \* 1278: 1D756..=1D76F
      [lo |-> 120662, hi |-> 120687, start |-> 120662, uppercase |-> TRUE,
       letter_type |-> "SansSerif", letter_style |-> "Bold", character_type |-> "Greek"],
      \* 1285: 1D790..=1D7A9
      [lo |-> 120720, hi |-> 120745, start |-> 120720, uppercase |-> TRUE,
       letter_type |-> "SansSerif", letter_style |-> "BoldItalic", character_type |-> "Greek"],
      \* 1294: 0061..=007A
      [lo |-> 97, hi |-> 122, start |-> 97, uppercase |-> FALSE,
       letter_type |-> "Serif", letter_style |-> "Normal", character_type |-> "Letter"],
      \* 1301: 1D41A..=1D433
      [lo |-> 119834, hi |-> 119859, start |-> 119834, uppercase |-> FALSE,
       letter_type |-> "Serif", letter_style |-> "Bold", character_type |-> "Letter"],
      \* 1308: 1D44E..=1D467
      [lo |-> 119886, hi |-> 119911, start |-> 119886, uppercase |-> FALSE,
       letter_type |-> "Serif", letter_style |-> "Italic", character_type |-> "Letter"],
      \* 1315: 1D482..=1D49B
      [lo |-> 119938, hi |-> 119963, start |-> 119938, uppercase |-> FALSE,
       letter_type |-> "Serif", letter_style |-> "BoldItalic", character_type |-> "Letter"],
      \* 1323: 1D5BA..=1D5D3
      [lo |-> 120250, hi |-> 120275, start |-> 120250, uppercase |-> FALSE,
       letter_type |-> "SansSerif", letter_style |-> "Normal", character_type |-> "Letter"],
      \* 1330: 1D5EE..=1D607
      [lo |-> 120302, hi |-> 120327, start |-> 120302, uppercase |-> FALSE,
       letter_type |-> "SansSerif", letter_style |-> "Bold", character_type |-> "Letter"],
      \* 1337: 1D622..=1D63B
      [lo |-> 120354, hi |-> 120379, start |-> 120354, uppercase |-> FALSE,
       letter_type |-> "SansSerif", letter_style |-> "Italic", character_type |-> "Letter"],
      \* 1344: 1D656..=1D66F
      [lo |-> 120406, hi |-> 120431, start |-> 120406, uppercase |-> FALSE,
       letter_type |-> "SansSerif", letter_style |-> "BoldItalic", character_type |-> "Letter"],
      \* 1352: 1D4B6..=1D4CF
      [lo |-> 119990, hi |-> 120015, start |-> 119990, uppercase |-> FALSE,
       letter_type |-> "Script", letter_style |-> "Normal", character_type |-> "Letter"],
      \* 1359: 1D4EA..=1D503
      [lo |-> 120042, hi |-> 120067, start |-> 120042, uppercase |-> FALSE,
       letter_type |-> "Script", letter_style |-> "Bold", character_type |-> "Letter"],
      \* 1367: 1D51E..=1D537
      [lo |-> 120094, hi |-> 120119, start |-> 120094, uppercase |-> FALSE,
       letter_type |-> "Fraktur", letter_style |-> "Normal", character_type |-> "Letter"],
      \* 1374: 1D586..=1D59F
      [lo |-> 120198, hi |-> 120223, start |-> 120198, uppercase |-> FALSE,
       letter_type |-> "Fraktur", letter_style |-> "Bold", character_type |-> "Letter"],
      \* 1382: 1D68A..=1D6A3
      [lo |-> 120458, hi |-> 120483, start |-> 120458, uppercase |-> FALSE,
       letter_type |-> "MonoSpace", letter_style |-> "Normal", character_type |-> "Letter"],
      \* 1390: 1D552..=1D56B
      [lo |-> 120146, hi |-> 120171, start |-> 120146, uppercase |-> FALSE,
       letter_type |-> "DoubleStruck", letter_style |-> "Bold", character_type |-> "Letter"],
      \* 1398: 03B1..=03D0
      [lo |-> 945, hi |-> 976, start |-> 945, uppercase |-> FALSE,
       letter_type |-> "Serif", letter_style |-> "Normal", character_type |-> "Greek"],
      \* 1405: 1D6C2..=1D6E1
      [lo |-> 120514, hi |-> 120545, start |-> 120514, uppercase |-> FALSE,
       letter_type |-> "Serif", letter_style |-> "Bold", character_type |-> "Greek"],
      \* 1412: 1D6FC..=1D71B
      [lo |-> 120572, hi |-> 120603, start |-> 120572, uppercase |-> FALSE,
       letter_type |-> "Serif", letter_style |-> "Italic", character_type |-> "Greek"],
      \* 1419: 1D736..=1D755
      [lo |-> 120630, hi |-> 120661, start |-> 120630, uppercase |-> FALSE,
       letter_type |-> "Serif", letter_style |-> "BoldItalic", character_type |-> "Greek"],
      \* 1426: 1D770..=1D78F
      [lo |-> 120688, hi |-> 120719, start |-> 120688, uppercase |-> FALSE,
       letter_type |-> "SansSerif", letter_style |-> "Bold", character_type |-> "Greek"],
      \* 1433: 1D7AA..=1D7C9
      [lo |-> 120746, hi |-> 120777, start |-> 120746, uppercase |-> FALSE,
       letter_type |-> "SansSerif", letter_style |-> "BoldItalic", character_type |-> "Greek"],
      \* 1442: 0030..=0039
      [lo |-> 48, hi |-> 57, start |-> 48, uppercase |-> FALSE,
       letter_type |-> "Serif", letter_style |-> "Normal", character_type |-> "Digit"],
      \* 1449: 1D7CE..=1D7D7
      [lo |-> 120782, hi |-> 120791, start |-> 120782, uppercase |-> FALSE,
       letter_type |-> "Serif", letter_style |-> "Bold", character_type |-> "Digit"],
      \* 1456: 1D7D8..=1D7E1
      [lo |-> 120792, hi |-> 120801, start |-> 120792, uppercase |-> FALSE,
       letter_type |-> "DoubleStruck", letter_style |-> "Normal", character_type |-> "Digit"],
      \* 1463: 1D7E2..=1D7EB
      [lo |-> 120802, hi |-> 120811, start |-> 120802, uppercase |-> FALSE,
       letter_type |-> "SansSerif", letter_style |-> "Normal", character_type |-> "Digit"],
      \* 1470: 1D7EC..=1D7F5
      [lo |-> 120812, hi |-> 120821, start |-> 120812, uppercase |-> FALSE,
       letter_type |-> "SansSerif", letter_style |-> "Bold", character_type |-> "Digit"],
      \* 1477: 1D7F6..=1D7FF
      [lo |-> 120822, hi |-> 120831, start |-> 120822, uppercase |-> FALSE,
       letter_type |-> "DoubleStruck", letter_style |-> "Normal", character_type |-> "Digit"]
    >>

\* the arms of the match whose range contains c
\* the arms whose range, taken one code point too far, contains c
MatchingArms_wide(c) ==
    {i \in 1..Len(RangeArms) : RangeArms[i].lo <= c /\ c <= RangeArms[i].hi + 1}

MatchingArms(c) ==
    {i \in 1..Len(RangeArms) : RangeArms[i].lo <= c /\ c <= RangeArms[i].hi}

\* the `_` arm: exact lookups in the corner-case tables
get_letter_info_corner_cases(c) ==
    LET uppercase_script == ScriptType_get_normal_corner_case(TRUE)
        lowercase_script == ScriptType_get_normal_corner_case(FALSE)
        uppercase_fraktur == FrakturType_get_normal_corner_case
        up_index == binary_search(uppercase_script[2], c)
        low_index == binary_search(lowercase_script[2], c)
        fr_index == binary_search(uppercase_fraktur[2], c)
    IN  IF up_index # None
        THEN LetterInfo_new(uppercase_script[1][up_index[1] + 1], TRUE,
                            "Script", "Normal", "Letter")
        ELSE IF low_index # None
        THEN LetterInfo_new(lowercase_script[1][low_index[1] + 1], TRUE,
                            "Script", "Normal", "Letter")
        ELSE IF fr_index # None
        THEN LetterInfo_new(uppercase_fraktur[1][fr_index[1] + 1], TRUE,
                            "Fraktur", "Normal", "Letter")
        ELSE IF c = 8462
        THEN LetterInfo_new(7, TRUE, "Serif", "Italic", "Letter")
        ELSE Other(c)

\* get_letter_info counting range offsets from one
get_letter_info_one_based(c) ==
    IF MatchingArms(c) # {}
    THEN LET first == CHOOSE i \in MatchingArms(c) : \A j \in MatchingArms(c) : i <= j
             arm == RangeArms[first]
         IN  LetterInfo_new(c - arm.start + 1, arm.uppercase, arm.letter_type,
                            arm.letter_style, arm.character_type)
    ELSE get_letter_info_corner_cases(c)

get_letter_info(c) ==
    IF MatchingArms(c) # {}
    THEN LET first == CHOOSE i \in MatchingArms(c) : \A j \in MatchingArms(c) : i <= j
             arm == RangeArms[first]
         IN  LetterInfo_new(c - arm.start, arm.uppercase, arm.letter_type,
                            arm.letter_style, arm.character_type)
    ELSE get_letter_info_corner_cases(c)

(***************************************************************************)
(* LetterInfo::convert (letter.rs 1555-1623).                              *)
(***************************************************************************)
\* the arm CharacterType::Letter (1561-1586)
convert_Letter(self, l_type, l_style) ==
    CASE l_type = "Serif" -> get_char("SerifType", self.offset, l_style, self.uppercase)
      [] l_type = "SansSerif" -> get_char("SansSerifType", self.offset, l_style, self.uppercase)
      [] l_type = "Script" -> get_char("ScriptType", self.offset, l_style, self.uppercase)
      [] l_type = "Fraktur" -> get_char("FrakturType", self.offset, l_style, self.uppercase)
      [] l_type = "MonoSpace" -> get_char("MonoSpaceType", self.offset, l_style, self.uppercase)
      [] l_type = "DoubleStruck" -> get_char("DoubleStruckType", self.offset, l_style, self.uppercase)

\* the arm CharacterType::Greek (1587-1600)
convert_Greek(self, l_type, l_style) ==
    CASE l_type = "Serif" -> get_char("GreekType", self.offset, l_style, self.uppercase)
      [] l_type = "SansSerif" -> get_char("GreekSansSerifType", self.offset, l_style, self.uppercase)
      [] l_type = "Script" -> Err("InvalidTypeError", 0)
      [] l_type = "Fraktur" -> Err("InvalidTypeError", 0)
      [] l_type = "MonoSpace" -> Err("InvalidTypeError", 0)
      [] l_type = "DoubleStruck" -> Err("InvalidTypeError", 0)

\* the arm CharacterType::Digit (1601-1620)
\* the Digit arm with Script and Fraktur served by the serif digits
convert_Digit_script_as_serif(self, l_type, l_style) ==
    CASE l_type = "Serif" -> get_char("DigitType", self.offset, l_style, self.uppercase)
      [] l_type = "SansSerif" -> get_char("DigitSansSerifType", self.offset, l_style, self.uppercase)
      [] l_type = "Script" -> get_char("DigitType", self.offset, l_style, self.uppercase)
      [] l_type = "Fraktur" -> get_char("DigitType", self.offset, l_style, self.uppercase)
      [] l_type = "MonoSpace" -> get_char("DigitMonoSpaceType", self.offset, l_style, self.uppercase)
      [] l_type = "DoubleStruck" -> get_char("DigitDoubleStruckType", self.offset, l_style, self.uppercase)

convert_Digit(self, l_type, l_style) ==
    CASE l_type = "Serif" -> get_char("DigitType", self.offset, l_style, self.uppercase)
      [] l_type = "SansSerif" -> get_char("DigitSansSerifType", self.offset, l_style, self.uppercase)
      [] l_type = "Script" -> Err("InvalidTypeError", 0)
      [] l_type = "Fraktur" -> Err("InvalidTypeError", 0)
      [] l_type = "MonoSpace" -> get_char("DigitMonoSpaceType", self.offset, l_style, self.uppercase)
      [] l_type = "DoubleStruck" -> get_char("DigitDoubleStruckType", self.offset, l_style, self.uppercase)

LetterInfo_convert(self, l_type, l_style) ==
    CASE self.character_type = "Letter" -> convert_Letter(self, l_type, l_style)
      [] self.character_type = "Greek" -> convert_Greek(self, l_type, l_style)
      [] self.character_type = "Digit" -> convert_Digit(self, l_type, l_style)
      [] self.character_type = "Other" -> Err("InvalidTypeError", 0)

(***************************************************************************)
(* The table behind LetterInfo::convert, read off its match: the style     *)
(* type that serves a category in a family (None: the arm is               *)
(* Err(InvalidTypeError)), and the start pair of a style type's emphasis.  *)
(***************************************************************************)
style_type(character_type, l_type) ==
    CASE character_type = "Letter" ->
           (CASE l_type = "Serif" -> <<"SerifType">>
              [] l_type = "SansSerif" -> <<"SansSerifType">>
              [] l_type = "Script" -> <<"ScriptType">>
              [] l_type = "Fraktur" -> <<"FrakturType">>
              [] l_type = "MonoSpace" -> <<"MonoSpaceType">>
              [] l_type = "DoubleStruck" -> <<"DoubleStruckType">>)
      [] character_type = "Greek" ->
           (CASE l_type = "Serif" -> <<"GreekType">>
              [] l_type = "SansSerif" -> <<"GreekSansSerifType">>
              [] OTHER -> None)
      [] character_type = "Digit" ->
           (CASE l_type = "Serif" -> <<"DigitType">>
              [] l_type = "SansSerif" -> <<"DigitSansSerifType">>
              [] l_type = "MonoSpace" -> <<"DigitMonoSpaceType">>
              [] l_type = "DoubleStruck" -> <<"DigitDoubleStruckType">>
              [] OTHER -> None)
      [] character_type = "Other" -> None

type_new(self) ==
    CASE self = "SerifType" -> SerifType_new
      [] self = "SansSerifType" -> SansSerifType_new
      [] self = "ScriptType" -> ScriptType_new
      [] self = "FrakturType" -> FrakturType_new
      [] self = "MonoSpaceType" -> MonoSpaceType_new
      [] self = "DoubleStruckType" -> DoubleStruckType_new
      [] self = "GreekType" -> GreekType_new
      [] self = "GreekSansSerifType" -> GreekSansSerifType_new
      [] self = "DigitType" -> DigitType_new
      [] self = "DigitSansSerifType" -> DigitSansSerifType_new
      [] self = "DigitMonoSpaceType" -> DigitMonoSpaceType_new
      [] self = "DigitDoubleStruckType" -> DigitDoubleStruckType_new

style_start(self, style) ==
    CASE style = "Normal" -> type_new(self).normal_start
      [] style = "Bold" -> type_new(self).bold_start
      [] style = "Italic" -> type_new(self).italic_start
      [] style = "BoldItalic" -> type_new(self).bold_italic_start

(***************************************************************************)
(* convert (lib.rs 4-14).                                                  *)
(***************************************************************************)
\* convert with the Other arm answering as LetterInfo::convert does for
\* CharacterType::Other
convert_other_is_error(c, l_type, l_style) ==
    LET character_info == get_letter_info(c)
    IN  IF character_info.kind = "Letter"
        THEN LetterInfo_convert(character_info, l_type, l_style)
        ELSE Err("InvalidTypeError", 0)

convert(c, l_type, l_style) ==
    LET character_info == get_letter_info(c)
    IN  IF character_info.kind = "Letter"
        THEN LetterInfo_convert(character_info, l_type, l_style)
        ELSE Ok(character_info.ch)

(***************************************************************************)
(* The state machine: one call per behaviour.                              *)
(*   Convert             a caller of the library calls convert;            *)
(*   ConvertLetterInfo   crate code builds a LetterInfo with               *)
(*                       LetterInfo::new (any offset, case and category)   *)
(*                       and calls LetterInfo::convert on it.              *)
(***************************************************************************)
\* the characters given to convert: every block the code knows, widened by
\* Pad on both sides, and the ends of the scalar value ranges
Chars ==
    ((48 - Pad)..(122 + Pad))             \* 0 .. z
    \cup ((913 - Pad)..(1013 + Pad))      \* 0391 .. 03F5
    \cup ((8450 - Pad)..(8500 + Pad))     \* 2102 .. 2134
    \cup ((8706 - Pad)..(8711 + Pad))     \* 2202 .. 2207
    \cup ((119808 - Pad)..(120831 + Pad)) \* 1D400 .. 1D7FF
    \cup {0, 55295, 57344, 1114111}       \* 0, D7FF, E000, 10FFFF

\* the threads that call convert
Threads == 1..NumThreads

\* a thread that is not inside convert
IdleCaller ==
    [pc |-> "idle", ch |-> NoChar, letter_type |-> "none", letter_style |-> "none",
     info |-> NoInfo, result |-> NoResult]

Init ==
    /\ pc = "idle"
    /\ call = "none"
    /\ ch = NoChar
    /\ letter_type = "none"
    /\ letter_style = "none"
    /\ info = NoInfo
    /\ result = NoResult
    /\ binary_search_impl \in BinarySearchImpls
    /\ input = << >>
    /\ consumed = 0
    /\ res = << >>
    /\ stderr = << >>
    /\ stdout = << >>
    /\ ascii = FALSE
    /\ callers = [t \in Threads |-> IdleCaller]
    /\ history = {}

Convert ==
    /\ pc = "idle"
    /\ \E c \in Chars, t \in StyledLetter, s \in LetterStyle :
         /\ ch' = c
         /\ letter_type' = t
         /\ letter_style' = s
         /\ info' = get_letter_info(c)
         /\ result' = convert(c, t, s)
    /\ call' = "convert"
    /\ pc' = "done"
    /\ UNCHANGED <<binary_search_impl, main_vars>>
    /\ UNCHANGED calls_vars

ConvertLetterInfo ==
    /\ pc = "idle"
    /\ \E offset \in 0..MaxOffset, uppercase \in BOOLEAN, ct \in CharacterType,
          t \in StyledLetter, s \in LetterStyle :
         /\ letter_type' = t
         /\ letter_style' = s
         /\ info' = LetterInfo_new(offset, uppercase, "Serif", "Normal", ct)
         /\ result' = LetterInfo_convert(info', t, s)
    /\ ch' = NoChar
    /\ call' = "LetterInfo::convert"
    /\ pc' = "done"
    /\ UNCHANGED <<binary_search_impl, main_vars>>
    /\ UNCHANGED calls_vars

Next ==
    \/ Convert
    \/ ConvertLetterInfo

Spec == Init /\ [][Next]_vars

(***************************************************************************)
(* The binary (bin.rs main, 55-75): one run of the program on its text     *)
(* argument with one target.  pc is "main" once the arguments are parsed,  *)
(* "loop" inside `for ch in input.chars()`, "exit" after main returned.    *)
(*   MainSkip     the text is empty: nothing is converted or printed;      *)
(*   MainBegin    the text is not empty: res is created;                   *)
(*   MainPush     one iteration whose convert returned Ok;                 *)
(*   MainReport   one iteration whose convert returned Err;                *)
(*   MainPrint    the iterator is exhausted: res is printed.               *)
(* A convert that panicked would end the process inside the loop: neither  *)
(* iteration action is enabled on such a result.                           *)
(***************************************************************************)
\* the characters of the text argument: a styled letter (U+1D400, bold A),
\* a digit, a character convert passes through
MainChars == {119808, 53, 33}

\* the texts of at most MaxLen characters
MainInputs == UNION {[1..n -> MainChars] : n \in 0..MaxLen}

\* --letter-type and --letter-style conflict with --ascii: with --ascii
\* they keep their default values, monospace and normal
InitMain ==
    /\ pc = "main"
    /\ call = "main"
    /\ input \in MainInputs
    /\ ascii \in BOOLEAN
    /\ letter_type \in (IF ascii THEN {"MonoSpace"} ELSE StyledLetter)
    /\ letter_style \in (IF ascii THEN {"Normal"} ELSE LetterStyle)
    /\ binary_search_impl \in BinarySearchImpls
    /\ ch = NoChar
    /\ info = NoInfo
    /\ result = NoResult
    /\ consumed = 0
    /\ res = << >>
    /\ stderr = << >>
    /\ stdout = << >>
    /\ callers = [t \in Threads |-> IdleCaller]
    /\ history = {}

\* `if !input.is_empty()` is false
MainSkip ==
    /\ pc = "main"
    /\ input = << >>
    /\ pc' = "exit"
    /\ UNCHANGED <<call, ch, letter_type, letter_style, info, result,
                   binary_search_impl, main_vars>>
    /\ UNCHANGED calls_vars

\* `let mut res = String::with_capacity(input.len())` and input.chars()
MainBegin ==
    /\ pc = "main"
    /\ input # << >>
    /\ res' = << >>
    /\ consumed' = 0
    /\ pc' = "loop"
    /\ UNCHANGED <<call, ch, letter_type, letter_style, info, result,
                   binary_search_impl, ascii, input, stderr, stdout>>
    /\ UNCHANGED calls_vars

\* the Ok arm putting the character at the front of res
MainPush_front ==
    /\ pc = "loop"
    /\ consumed < Len(input)
    /\ convert(input[consumed + 1], letter_type, letter_style).tag = "Ok"
    /\ ch' = input[consumed + 1]
    /\ info' = get_letter_info(ch')
    /\ result' = convert(ch', letter_type, letter_style)
    /\ res' = <<result'.val>> \o res
    /\ consumed' = consumed + 1
    /\ UNCHANGED <<pc, call, letter_type, letter_style, binary_search_impl,
                   ascii, input, stderr, stdout>>
    /\ UNCHANGED calls_vars

\* one iteration taking the arm `Ok(char) => res.push(char)`
MainPush ==
    /\ pc = "loop"
    /\ consumed < Len(input)
    /\ convert(input[consumed + 1], letter_type, letter_style).tag = "Ok"
    /\ ch' = input[consumed + 1]
    /\ info' = get_letter_info(ch')
    /\ result' = convert(ch', letter_type, letter_style)
    /\ res' = Append(res, result'.val)
    /\ consumed' = consumed + 1
    /\ UNCHANGED <<pc, call, letter_type, letter_style, binary_search_impl,
                   ascii, input, stderr, stdout>>
    /\ UNCHANGED calls_vars

\* the Err arm also pushing U+FFFD REPLACEMENT CHARACTER
MainReport_replacement ==
    /\ pc = "loop"
    /\ consumed < Len(input)
    /\ convert(input[consumed + 1], letter_type, letter_style).tag = "Err"
    /\ ch' = input[consumed + 1]
    /\ info' = get_letter_info(ch')
    /\ result' = convert(ch', letter_type, letter_style)
    /\ stderr' = Append(stderr, [e |-> <<result'.err, result'.val>>, ch |-> ch',
                                 letter_type |-> letter_type,
                                 letter_style |-> letter_style])
    /\ res' = Append(res, 65533)
    /\ consumed' = consumed + 1
    /\ UNCHANGED <<pc, call, letter_type, letter_style, binary_search_impl,
                   ascii, input, stdout>>
    /\ UNCHANGED calls_vars

\* one iteration taking the arm `Err(e) => eprintln!(...)`: the report
\* carries e, ch, letter_type and letter_style
MainReport ==
    /\ pc = "loop"
    /\ consumed < Len(input)
    /\ convert(input[consumed + 1], letter_type, letter_style).tag = "Err"
    /\ ch' = input[consumed + 1]
    /\ info' = get_letter_info(ch')
    /\ result' = convert(ch', letter_type, letter_style)
    /\ stderr' = Append(stderr, [e |-> <<result'.err, result'.val>>, ch |-> ch',
                                 letter_type |-> letter_type,
                                 letter_style |-> letter_style])
    /\ consumed' = consumed + 1
    /\ UNCHANGED <<pc, call, letter_type, letter_style, binary_search_impl,
                   ascii, input, res, stdout>>
    /\ UNCHANGED calls_vars

\* the iterator returned None: `println!("{}", res)` and main returns
MainPrint ==
    /\ pc = "loop"
    /\ consumed = Len(input)
    /\ stdout' = Append(stdout, res)
    /\ pc' = "exit"
    /\ UNCHANGED <<call, ch, letter_type, letter_style, info, result,
                   binary_search_impl, ascii, input, consumed, res, stderr>>
    /\ UNCHANGED calls_vars

NextMain ==
    \/ MainSkip
    \/ MainBegin
    \/ MainPush
    \/ MainReport
    \/ MainPrint

\* main is sequential code: it takes its next step as long as it has one
SpecMain == InitMain /\ [][NextMain]_vars /\ WF_vars(NextMain)

(***************************************************************************)
(* Concurrent callers (lib.rs convert, 4-14): NumThreads threads call      *)
(* convert again and again; each call has its own ch, letter_type,         *)
(* letter_style, character_info and result, and the tables are built by    *)
(* X::new() inside the call.  A call takes two steps, so that the steps of *)
(* other calls fall between them.                                          *)
(*   CallBegin     a thread enters convert with some arguments;            *)
(*   CallClassify  `let character_info = get_letter_info(ch)`;             *)
(*   CallEncode    the match on character_info: the result;                *)
(*   CallReturn    the thread has the result and leaves the call.          *)
(***************************************************************************)
\* the characters the threads convert: 'h' and '5'
CallChars == {104, 53}

\* the targets the threads ask for, <<family, emphasis>>
CallTargets == {<<"Serif", "Italic">>, <<"Script", "Normal">>}

InitCalls ==
    /\ pc = "calls"
    /\ call = "none"
    /\ ch = NoChar
    /\ letter_type = "none"
    /\ letter_style = "none"
    /\ info = NoInfo
    /\ result = NoResult
    /\ binary_search_impl \in BinarySearchImpls
    /\ input = << >>
    /\ consumed = 0
    /\ res = << >>
    /\ stderr = << >>
    /\ stdout = << >>
    /\ ascii = FALSE
    /\ callers = [t \in Threads |-> IdleCaller]
    /\ history = {}

CallBegin(t) ==
    /\ pc = "calls"
    /\ callers[t].pc = "idle"
    /\ \E c \in CallChars, target \in CallTargets :
         callers' = [callers EXCEPT ![t] =
                        [pc |-> "classify", ch |-> c, letter_type |-> target[1],
                         letter_style |-> target[2], info |-> NoInfo,
                         result |-> NoResult]]
    /\ UNCHANGED <<call_vars, main_vars, history>>

CallClassify(t) ==
    /\ pc = "calls"
    /\ callers[t].pc = "classify"
    /\ callers' = [callers EXCEPT ![t].info = get_letter_info(callers[t].ch),
                                  ![t].pc = "encode"]
    /\ UNCHANGED <<call_vars, main_vars, history>>

\* the match working on the character_info of whichever call classified
\* last, as if it were kept in one place for all threads
CallEncode_shared(t) ==
    /\ pc = "calls"
    /\ callers[t].pc = "encode"
    /\ \E u \in Threads :
         /\ callers[u].info.kind # "None"
         /\ callers' = [callers EXCEPT
               ![t].result =
                   IF callers[u].info.kind = "Letter"
                   THEN LetterInfo_convert(callers[u].info, callers[t].letter_type,
                                           callers[t].letter_style)
                   ELSE Ok(callers[u].info.ch),
               ![t].pc = "returned"]
    /\ UNCHANGED <<call_vars, main_vars, history>>

CallEncode(t) ==
    /\ pc = "calls"
    /\ callers[t].pc = "encode"
    /\ callers' = [callers EXCEPT
          ![t].result =
              IF callers[t].info.kind = "Letter"
              THEN LetterInfo_convert(callers[t].info, callers[t].letter_type,
                                      callers[t].letter_style)
              ELSE Ok(callers[t].info.ch),
          ![t].pc = "returned"]
    /\ UNCHANGED <<call_vars, main_vars, history>>

CallReturn(t) ==
    /\ pc = "calls"
    /\ callers[t].pc = "returned"
    /\ history' = history \cup {[ch |-> callers[t].ch,
                                  letter_type |-> callers[t].letter_type,
                                  letter_style |-> callers[t].letter_style,
                                  result |-> callers[t].result]}
    /\ callers' = [callers EXCEPT ![t] = IdleCaller]
    /\ UNCHANGED <<call_vars, main_vars>>

NextCalls ==
    \/ \E t \in Threads : CallBegin(t)
    \/ \E t \in Threads : CallClassify(t)
    \/ \E t \in Threads : CallEncode(t)
    \/ \E t \in Threads : CallReturn(t)

SpecCalls == InitCalls /\ [][NextCalls]_vars

(***************************************************************************)
(* Properties.  A call has returned when pc = "done"; ch, letter_type and  *)
(* letter_style are its arguments, info what it classified or was given,   *)
(* result what it returned.                                                *)
(***************************************************************************)
Returned(entry) == pc = "done" /\ call = entry

\* the error kinds the design names, as variants of LetterTypeError
UnsupportedCombination == {"InvalidTypeError", "InvalidStyleError"}

OffsetOutOfRange == {"ExceedLengthError"}

InvalidCodePoint == {"InvalidCodeError"}

\* A-Z, a-z, 0-9
PlainAscii == (65..90) \cup (97..122) \cup (48..57)

\* C1: round trip.  Whenever convert(c, F, E) classified c and returned
\* Ok(d), classifying d yields a letter of the same category, the same
\* is-uppercase flag and the same offset as classifying c.
RoundTrip ==
    (Returned("convert") /\ info.kind = "Letter" /\ result.tag = "Ok") =>
        LET back == get_letter_info(result.val)
        IN  /\ back.kind = "Letter"
            /\ back.character_type = info.character_type
            /\ back.uppercase = info.uppercase
            /\ back.offset = info.offset

\* C2: de-styling.  Whenever convert(c, F, E) returned Ok(d) for a plain
\* ASCII letter or digit c, convert(d, Serif, Normal) returns Ok(c).
DeStyling ==
    (Returned("convert") /\ ch \in PlainAscii /\ result.tag = "Ok") =>
        convert(result.val, "Serif", "Normal") = Ok(ch)

\* C3: pass-through.  Whenever convert was called on a character that
\* get_letter_info reports as Other, it returned Ok of that same character,
\* whatever the requested type and style; it is never an error.
PassThrough ==
    (Returned("convert") /\ info.kind = "Other") => result = Ok(ch)

\* convert was called on '@' for Fraktur BoldItalic and passed it through
PassThroughWitness ==
    /\ Returned("convert")
    /\ ch = 64 /\ letter_type = "Fraktur" /\ letter_style = "BoldItalic"
    /\ info.kind = "Other"
    /\ result = Ok(64)

\* C4: corner-case exactness.  convert('H', Script, Normal) = Ok(U+210B),
\* convert('C', Fraktur, Normal) = Ok(U+212D), convert('C', DoubleStruck,
\* Bold) = Ok(U+2102) and convert('h', Serif, Italic) = Ok(U+210E).
CornerCaseExactness ==
    Returned("convert") =>
        /\ (ch = 72 /\ letter_type = "Script" /\ letter_style = "Normal")
              => result = Ok(8459)
        /\ (ch = 67 /\ letter_type = "Fraktur" /\ letter_style = "Normal")
              => result = Ok(8493)
        /\ (ch = 67 /\ letter_type = "DoubleStruck" /\ letter_style = "Bold")
              => result = Ok(8450)
        /\ (ch = 104 /\ letter_type = "Serif" /\ letter_style = "Italic")
              => result = Ok(8462)

\* convert('h', Serif, Italic) returned the Planck constant
CornerCaseExactnessWitness ==
    /\ Returned("convert")
    /\ ch = 104 /\ letter_type = "Serif" /\ letter_style = "Italic"
    /\ info.kind = "Letter" /\ info.offset = 7 /\ ~info.uppercase
    /\ result = Ok(8462)

\* C5: arithmetic-path exactness.  convert('A', Serif, Bold) = Ok(U+1D400),
\* convert('a', SansSerif, Normal) = Ok(U+1D5BA) and
\* convert('0', SansSerif, Bold) = Ok(U+1D7EC).
ArithmeticExactness ==
    Returned("convert") =>
        /\ (ch = 65 /\ letter_type = "Serif" /\ letter_style = "Bold")
              => result = Ok(119808)
        /\ (ch = 97 /\ letter_type = "SansSerif" /\ letter_style = "Normal")
              => result = Ok(120250)
        /\ (ch = 48 /\ letter_type = "SansSerif" /\ letter_style = "Bold")
              => result = Ok(120812)

\* convert('0', SansSerif, Bold) returned the sans-serif bold zero
ArithmeticExactnessWitness ==
    /\ Returned("convert")
    /\ ch = 48 /\ letter_type = "SansSerif" /\ letter_style = "Bold"
    /\ info.kind = "Letter" /\ info.character_type = "Digit" /\ info.offset = 0
    /\ result = Ok(120812)

\* C6: unsupported family.  Whenever convert was called on a character
\* classified as a digit with target Script or Fraktur, or on a character
\* classified as Greek with target Script, Fraktur, MonoSpace or
\* DoubleStruck, it returned an UnsupportedCombination error, whatever the
\* style.
UnsupportedFamily ==
    (/\ Returned("convert")
     /\ info.kind = "Letter"
     /\ \/ info.character_type = "Digit" /\ letter_type \in {"Script", "Fraktur"}
        \/ /\ info.character_type = "Greek"
           /\ letter_type \in {"Script", "Fraktur", "MonoSpace", "DoubleStruck"})
    => (result.tag = "Err" /\ result.err \in UnsupportedCombination)

\* convert('5', Script, Normal) returned the error
UnsupportedFamilyWitness ==
    /\ Returned("convert")
    /\ ch = 53 /\ letter_type = "Script" /\ letter_style = "Normal"
    /\ info.character_type = "Digit"
    /\ result = Err("InvalidTypeError", 0)

\* the alphabet length the design gives each category
AlphabetLength(character_type) ==
    IF character_type = "Digit" THEN 10 ELSE 26

\* C7: offsets stay inside the alphabet.  Whenever convert classified its
\* character, the decoded offset is below the alphabet length of the
\* category, and convert did not return the OffsetOutOfRange error.
OffsetsInsideAlphabet ==
    (Returned("convert") /\ info.kind = "Letter") =>
        /\ info.offset < AlphabetLength(info.character_type)
        /\ ~(result.tag = "Err" /\ result.err \in OffsetOutOfRange)

\* C8: boundary offsets resolve.  Whenever a letter, Greek or digit identity
\* of either case with offset 0 or alphabet length - 1 was encoded into a
\* family that serves its category with a populated start pair for the
\* style, the call returned Ok.
BoundaryOffsetsResolve ==
    (/\ pc = "done"
     /\ info.kind = "Letter"
     /\ info.offset \in {0, AlphabetLength(info.character_type) - 1}
     /\ style_type(info.character_type, letter_type) # None
     /\ style_start(style_type(info.character_type, letter_type)[1], letter_style) # None)
    => result.tag = "Ok"

\* an uppercase digit identity of offset 9, which only LetterInfo::new can
\* build, was encoded into MonoSpace Normal
BoundaryOffsetsResolveWitness ==
    /\ Returned("LetterInfo::convert")
    /\ info.character_type = "Digit" /\ info.offset = 9 /\ info.uppercase
    /\ letter_type = "MonoSpace" /\ letter_style = "Normal"
    /\ result = Ok(120831)

\* a Unicode scalar value
IsScalarValue(x) == x >= 0 /\ x <= 1114111 /\ ~(x >= 55296 /\ x <= 57343)

\* C9: the engine never aborts.  Every call returned Ok of a scalar value or
\* one of the typed errors: no unwrap of char::from_u32 fired, no index left
\* its vector, and InvalidCodeError was never returned.
NeverAborts ==
    pc = "done" =>
        /\ result.tag \in {"Ok", "Err"}
        /\ result.tag = "Ok" => IsScalarValue(result.val)
        /\ result.tag = "Err" =>
              /\ result.err \in LetterTypeError
              /\ result.err \notin InvalidCodePoint

\* convert('Z', Fraktur, Normal) indexed the last entry of the corner-case
\* vector
NeverAbortsWitness ==
    /\ Returned("convert")
    /\ ch = 90 /\ letter_type = "Fraktur" /\ letter_style = "Normal"
    /\ result = Ok(8488)

\* the Script Normal character of a Latin letter, as the claim lists it
ScriptNormalExpected(offset, uppercase) ==
    IF uppercase
    THEN CASE offset = 1 -> 8492     \* B 212C
           [] offset = 4 -> 8496     \* E 2130
           [] offset = 5 -> 8497     \* F 2131
           [] offset = 7 -> 8459     \* H 210B
           [] offset = 8 -> 8464     \* I 2110
           [] offset = 11 -> 8466    \* L 2112
           [] offset = 12 -> 8499    \* M 2133
           [] offset = 17 -> 8475    \* R 211B
           [] OTHER -> 119964 + offset
    ELSE CASE offset = 4 -> 8495     \* e 212F
           [] offset = 6 -> 8458     \* g 210A
           [] offset = 14 -> 8500    \* o 2134
           [] OTHER -> 119990 + offset

\* C10: Script Normal overrides.  Whenever a Latin letter identity with
\* offset 0..25 was encoded into Script Normal, the call returned the listed
\* Letterlike Symbol for the overridden offsets and base + offset inside the
\* contiguous Script block for every other offset.
ScriptNormalOverrides ==
    (/\ pc = "done"
     /\ info.kind = "Letter" /\ info.character_type = "Letter"
     /\ info.offset <= 25
     /\ letter_type = "Script" /\ letter_style = "Normal")
    => result = Ok(ScriptNormalExpected(info.offset, info.uppercase))

\* convert('I', Script, Normal) returned U+2110
ScriptNormalOverridesWitness ==
    /\ Returned("convert")
    /\ ch = 73 /\ letter_type = "Script" /\ letter_style = "Normal"
    /\ info.offset = 8 /\ info.uppercase
    /\ result = Ok(8464)

\* an identity of the given category was encoded into the given type and style
Encoded(character_type, l_type, l_style) ==
    /\ pc = "done"
    /\ info.kind = "Letter" /\ info.character_type = character_type
    /\ letter_type = l_type /\ letter_style = l_style

\* the uppercase Script Normal corner cases as test_script_corner_cases lists
\* them: <<offsets, characters>>
ScriptTestUppercase ==
    << <<1, 4, 5, 7, 9, 11, 12, 17>>,
       <<8492, 8496, 8497, 8459, 8464, 8466, 8499, 8475>> >>

ScriptTestLowercase == << <<4, 6, 14>>, <<8495, 8458, 8500>> >>

\* C11: the crate's test of the Script corner cases.  Encoding an uppercase
\* Latin letter of offset 1, 4, 5, 7, 9, 11, 12, 17 into Script Normal returns
\* U+212C, U+2130, U+2131, U+210B, U+2110, U+2112, U+2133, U+211B in that
\* order, and a lowercase one of offset 4, 6, 14 returns U+212F, U+210A,
\* U+2134.
ScriptTestCornerCases ==
    Encoded("Letter", "Script", "Normal") =>
        /\ \A k \in 1..Len(ScriptTestUppercase[1]) :
              (info.uppercase /\ info.offset = ScriptTestUppercase[1][k])
                => result = Ok(ScriptTestUppercase[2][k])
        /\ \A k \in 1..Len(ScriptTestLowercase[1]) :
              (~info.uppercase /\ info.offset = ScriptTestLowercase[1][k])
                => result = Ok(ScriptTestLowercase[2][k])

\* the Fraktur Normal character of a Latin letter, as the claim lists it
FrakturNormalExpected(offset, uppercase) ==
    IF uppercase
    THEN CASE offset = 2 -> 8493     \* C 212D
           [] offset = 7 -> 8460     \* H 210C
           [] offset = 8 -> 8465     \* I 2111
           [] offset = 17 -> 8476    \* R 211C
           [] offset = 25 -> 8488    \* Z 2128
           [] OTHER -> 120068 + offset
    ELSE 120094 + offset

\* C12: Fraktur Normal overrides.  Whenever a Latin letter identity with
\* offset 0..25 was encoded into Fraktur Normal, the call returned the listed
\* Letterlike Symbol for uppercase offsets 2, 7, 8, 17, 25 and base + offset
\* for every other uppercase offset and every lowercase offset.
FrakturNormalOverrides ==
    (Encoded("Letter", "Fraktur", "Normal") /\ info.offset <= 25)
    => result = Ok(FrakturNormalExpected(info.offset, info.uppercase))

\* convert('r', Fraktur, Normal): a lowercase letter at an offset that is
\* overridden for uppercase only
FrakturNormalOverridesWitness ==
    /\ Returned("convert")
    /\ ch = 114 /\ letter_type = "Fraktur" /\ letter_style = "Normal"
    /\ info.offset = 17 /\ ~info.uppercase
    /\ result = Ok(120111)

\* the Double-Struck Bold character of a Latin letter, as the claim lists it
DoubleStruckBoldExpected(offset, uppercase) ==
    IF uppercase
    THEN CASE offset = 2 -> 8450     \* C 2102
           [] offset = 7 -> 8461     \* H 210D
           [] offset = 13 -> 8469    \* N 2115
           [] offset = 15 -> 8473    \* P 2119
           [] offset = 16 -> 8474    \* Q 211A
           [] offset = 17 -> 8477    \* R 211D
           [] offset = 25 -> 8484    \* Z 2124
           [] OTHER -> 120120 + offset
    ELSE 120146 + offset

\* C13: Double-Struck Bold overrides.  Whenever a Latin letter identity with
\* offset 0..25 was encoded into DoubleStruck Bold, the call returned the
\* listed Letterlike Symbol for uppercase offsets 2, 7, 13, 15, 16, 17, 25
\* and base + offset for every other uppercase offset and every lowercase
\* offset.
DoubleStruckBoldOverrides ==
    (Encoded("Letter", "DoubleStruck", "Bold") /\ info.offset <= 25)
    => result = Ok(DoubleStruckBoldExpected(info.offset, info.uppercase))

\* convert('Q', DoubleStruck, Bold) returned U+211A
DoubleStruckBoldOverridesWitness ==
    /\ Returned("convert")
    /\ ch = 81 /\ letter_type = "DoubleStruck" /\ letter_style = "Bold"
    /\ info.offset = 16 /\ info.uppercase
    /\ result = Ok(8474)

\* C14: Greek Serif Normal overrides.  Encoding a Greek identity into Serif
\* Normal returns Ok(U+03F4) for uppercase offset 17, Ok(U+2207) for
\* uppercase offset 25, and Ok of U+2202, U+03F5, U+03D1, U+03F0, U+03D5,
\* U+03F1, U+03D6 for lowercase offsets 25..31: every entry is returned.
GreekNormalOverrides ==
    Encoded("Greek", "Serif", "Normal") =>
        /\ (info.uppercase /\ info.offset = 17) => result = Ok(1012)
        /\ (info.uppercase /\ info.offset = 25) => result = Ok(8711)
        /\ (~info.uppercase /\ info.offset = 25) => result = Ok(8706)
        /\ (~info.uppercase /\ info.offset = 26) => result = Ok(1013)
        /\ (~info.uppercase /\ info.offset = 27) => result = Ok(977)
        /\ (~info.uppercase /\ info.offset = 28) => result = Ok(1008)
        /\ (~info.uppercase /\ info.offset = 29) => result = Ok(981)
        /\ (~info.uppercase /\ info.offset = 30) => result = Ok(1009)
        /\ (~info.uppercase /\ info.offset = 31) => result = Ok(982)

\* the overrides the design lists, by slot, case and offset
ListedOverride(character_type, l_type, l_style, uppercase, offset) ==
    \/ /\ character_type = "Letter" /\ l_type = "Script" /\ l_style = "Normal"
       /\ IF uppercase THEN offset \in {1, 4, 5, 7, 8, 11, 12, 17}
          ELSE offset \in {4, 6, 14}
    \/ /\ character_type = "Letter" /\ l_type = "Fraktur" /\ l_style = "Normal"
       /\ uppercase /\ offset \in {2, 7, 8, 17, 25}
    \/ /\ character_type = "Letter" /\ l_type = "DoubleStruck" /\ l_style = "Bold"
       /\ uppercase /\ offset \in {2, 7, 13, 15, 16, 17, 25}
    \/ /\ character_type = "Greek" /\ l_type = "Serif" /\ l_style = "Normal"
       /\ IF uppercase THEN offset \in {17, 25} ELSE offset \in 25..31
    \/ /\ character_type = "Letter" /\ l_type = "Serif" /\ l_style = "Italic"
       /\ ~uppercase /\ offset = 7

\* C15: everything else is pure arithmetic.  Whenever an identity with an
\* in-range offset was encoded into a family that serves its category with a
\* populated start pair for the style, the call returned U+210E for Serif
\* Italic lowercase offset 7, and for every offset that is not a listed
\* override it returned the uppercase base + offset or the lowercase base +
\* offset of that slot, according to the case.
PureArithmetic ==
    (/\ pc = "done"
     /\ info.kind = "Letter"
     /\ info.offset < AlphabetLength(info.character_type)
     /\ style_type(info.character_type, letter_type) # None
     /\ style_start(style_type(info.character_type, letter_type)[1], letter_style) # None)
    => LET start == style_start(style_type(info.character_type, letter_type)[1],
                                letter_style)
       IN  /\ (/\ info.character_type = "Letter" /\ letter_type = "Serif"
                /\ letter_style = "Italic" /\ ~info.uppercase /\ info.offset = 7)
               => result = Ok(8462)
           /\ ~ListedOverride(info.character_type, letter_type, letter_style,
                              info.uppercase, info.offset)
               => result = Ok((IF info.uppercase THEN start[1] ELSE start[2])
                              + info.offset)

\* convert('c', SansSerif, Italic) returned the lowercase base + 2
PureArithmeticWitness ==
    /\ Returned("convert")
    /\ ch = 99 /\ letter_type = "SansSerif" /\ letter_style = "Italic"
    /\ info.offset = 2 /\ ~info.uppercase
    /\ result = Ok(120356)

\* the override tables of the encoders, <<offsets, characters>> each, and
\* the Serif Italic h
OverrideTables ==
    << ScriptType_get_normal_corner_case(TRUE),
       ScriptType_get_normal_corner_case(FALSE),
       FrakturType_get_normal_corner_case,
       DoubleStruckType_get_bold_corner_case,
       GreekType_get_normal_corner_case(TRUE),
       GreekType_get_normal_corner_case(FALSE),
       << <<7>>, <<8462>> >> >>

\* C16: corner-case reverse lookup.  Whenever convert was called on an
\* override code point of the Script Normal, Fraktur Normal, Double-Struck
\* Bold or Greek Serif Normal table, or on U+210E, the classification was a
\* letter identity (never Other) with exactly the offset the table lists the
\* code point under.
OverridesClassified ==
    Returned("convert") =>
        \A t \in 1..Len(OverrideTables) :
            \A k \in 1..Len(OverrideTables[t][2]) :
                ch = OverrideTables[t][2][k]
                => (info.kind = "Letter" /\ info.offset = OverrideTables[t][1][k])

\* C17: range classification.  Whenever convert was called on a code point
\* inside one of the contiguous ranges, the classification is a letter
\* identity whose offset is the code point minus the start of that range,
\* whose category, family and emphasis are those of the range, and whose
\* uppercase flag is that of the range.
RangeClassification ==
    Returned("convert") =>
        \A i \in 1..Len(RangeArms) :
            (RangeArms[i].lo <= ch /\ ch <= RangeArms[i].hi)
            => /\ info.kind = "Letter"
               /\ info.offset = ch - RangeArms[i].lo
               /\ info.character_type = RangeArms[i].character_type
               /\ info.uppercase = RangeArms[i].uppercase
               /\ info.letter_type = RangeArms[i].letter_type
               /\ info.letter_style = RangeArms[i].letter_style

\* convert on U+1D4D2, the third letter of the bold Script uppercase range
RangeClassificationWitness ==
    /\ Returned("convert")
    /\ ch = 120018
    /\ info.kind = "Letter" /\ info.offset = 2 /\ info.uppercase
    /\ info.character_type = "Letter"
    /\ info.letter_type = "Script" /\ info.letter_style = "Bold"

\* C18: empty emphasis slot.  Whenever convert classified its character and
\* the target family has a table for the category, a None start pair for the
\* requested style makes convert return the UnsupportedCombination error,
\* and a populated start pair with an offset inside the alphabet makes it
\* return Ok.
EmptySlot ==
    (/\ Returned("convert")
     /\ info.kind = "Letter"
     /\ style_type(info.character_type, letter_type) # None)
    => LET start == style_start(style_type(info.character_type, letter_type)[1],
                                letter_style)
       IN  /\ start = None
               => (result.tag = "Err" /\ result.err \in UnsupportedCombination)
           /\ (start # None /\ info.offset < AlphabetLength(info.character_type))
               => result.tag = "Ok"

\* the characters input.chars() has yielded so far
Visited == SubSeq(input, 1, consumed)

\* the results of the characters of s that convert to Ok, in order
RECURSIVE Successes(_)
Successes(s) ==
    IF s = << >> THEN << >>
    ELSE LET r == convert(Head(s), letter_type, letter_style)
         IN  (IF r.tag = "Ok" THEN <<r.val>> ELSE << >>) \o Successes(Tail(s))

\* the characters of s that convert to Err, in order
RECURSIVE Failures(_)
Failures(s) ==
    IF s = << >> THEN << >>
    ELSE LET r == convert(Head(s), letter_type, letter_style)
         IN  (IF r.tag = "Err" THEN <<Head(s)>> ELSE << >>) \o Failures(Tail(s))

\* C19: whole-string conversion handles errors per character.  At every
\* point of the loop and after it, each visited character has exactly one
\* outcome: the characters pushed to res and the error reports together
\* number the visited characters, the reports are for exactly the visited
\* characters whose conversion failed, in order, res holds one character per
\* successful conversion and none for a failed one, and when main has
\* returned every input character has been visited.
PerCharacterOutcome ==
    pc \in {"loop", "exit"} =>
        /\ Len(res) + Len(stderr) = consumed
        /\ [k \in 1..Len(stderr) |-> stderr[k].ch] = Failures(Visited)
        /\ Len(res) = Len(Successes(Visited))
        /\ pc = "exit" => consumed = Len(input)

\* main on "5\u{1D400}5" with Script Normal: the first character fails, the loop
\* goes on, the second is converted, the third fails
PerCharacterOutcomeWitness ==
    /\ pc = "exit"
    /\ input = <<53, 119808, 53>>
    /\ letter_type = "Script" /\ letter_style = "Normal"
    /\ res = <<119964>>
    /\ Len(stderr) = 2 /\ stderr[1].ch = 53 /\ stderr[2].ch = 53

\* C20: whole-string conversion preserves order.  res is always the sequence
\* of the successful conversion results of the visited characters in input
\* order, each iteration visits the next input character, the printed line
\* is the successful results of the whole input in input order, and main
\* eventually returns with every input character visited.
OrderPreserved ==
    /\ [](pc \in {"loop", "exit"} => res = Successes(Visited))
    /\ []((pc = "exit" /\ input # << >>) => stdout = <<Successes(input)>>)
    /\ [][consumed' # consumed
           => (consumed' = consumed + 1 /\ ch' = input[consumed'])]_vars
    /\ <>(pc = "exit" /\ consumed = Len(input))

\* main on "\u{1D400}5!" with Script Normal printed the results of
\* U+1D400 and '!'
OrderPreservedWitness ==
    /\ pc = "exit"
    /\ input = <<119808, 53, 33>>
    /\ letter_type = "Script" /\ letter_style = "Normal"
    /\ Len(stderr) = 1
    /\ stdout = << <<119964, 33>> >>

\* C21: --ascii.  When main runs with the flag --ascii, every styled letter
\* of the text is turned into its ASCII letter: the conversion of a letter
\* identity of offset i returns the plain letter of offset i and of the same
\* case.
AsciiFlag ==
    (/\ ascii
     /\ pc \in {"loop", "exit"} /\ consumed > 0
     /\ info.kind = "Letter" /\ info.character_type = "Letter")
    => result = Ok((IF info.uppercase THEN 65 ELSE 97) + info.offset)

\* the corner-case table the encoder of a slot consults, <<offsets,
\* characters>>; empty for a slot without one
OverrideTable(character_type, l_type, l_style, uppercase) ==
    CASE character_type = "Letter" /\ l_type = "Script" /\ l_style = "Normal" ->
           ScriptType_get_normal_corner_case(uppercase)
      [] character_type = "Letter" /\ l_type = "Fraktur" /\ l_style = "Normal"
         /\ uppercase ->
           FrakturType_get_normal_corner_case
      [] character_type = "Letter" /\ l_type = "DoubleStruck" /\ l_style = "Bold"
         /\ uppercase ->
           DoubleStruckType_get_bold_corner_case
      [] character_type = "Greek" /\ l_type = "Serif" /\ l_style = "Normal" ->
           GreekType_get_normal_corner_case(uppercase)
      [] character_type = "Letter" /\ l_type = "Serif" /\ l_style = "Italic"
         /\ ~uppercase ->
           << <<7>>, <<8462>> >>
      [] OTHER -> << << >>, << >> >>

\* C22: encoder check order.  Whenever an identity was encoded, an offset at
\* or beyond the alphabet length gives the UnsupportedCombination error when
\* the family has no table for the category and the OffsetOutOfRange error
\* when it has one, whether or not the requested start pair is None; an
\* offset inside the alphabet that has an override entry gives that entry.
EncoderCheckOrder ==
    (pc = "done" /\ info.kind = "Letter") =>
        LET table == OverrideTable(info.character_type, letter_type, letter_style,
                                   info.uppercase)
            has_table == style_type(info.character_type, letter_type) # None
        IN  IF info.offset >= AlphabetLength(info.character_type)
            THEN /\ ~has_table
                     => (result.tag = "Err" /\ result.err \in UnsupportedCombination)
                 /\ has_table
                     => (result.tag = "Err" /\ result.err \in OffsetOutOfRange)
            ELSE \A k \in 1..Len(table[1]) :
                     info.offset = table[1][k] => result = Ok(table[2][k])

\* LetterInfo::convert of a fabricated letter of offset 26 to Script Italic,
\* a None slot: the offset is rejected first
EncoderCheckOrderWitness ==
    /\ Returned("LetterInfo::convert")
    /\ info.character_type = "Letter" /\ info.offset = 26
    /\ letter_type = "Script" /\ letter_style = "Italic"
    /\ result = Err("ExceedLengthError", 26)

\* the slots that have a corner-case table, as <<category, family, emphasis,
\* case>>
OverrideSlots ==
    {s \in {"Letter", "Greek"} \X StyledLetter \X LetterStyle \X BOOLEAN :
        OverrideTable(s[1], s[2], s[3], s[4])[1] # << >>}

\* base + offset of a slot, for the case
Arithmetic(slot, offset) ==
    LET start == style_start(style_type(slot[1], slot[2])[1], slot[3])
    IN  (IF slot[4] THEN start[1] ELSE start[2]) + offset

\* C23: override always wins.  Every override entry differs from base +
\* offset of its slot, and no call of convert, whatever its character,
\* returns base + offset of an overridden offset of a slot of the target
\* family and emphasis.
OverrideAlwaysWins ==
    /\ \A slot \in OverrideSlots :
          LET table == OverrideTable(slot[1], slot[2], slot[3], slot[4])
          IN  \A k \in 1..Len(table[1]) :
                  table[2][k] # Arithmetic(slot, table[1][k])
    /\ (Returned("convert") /\ result.tag = "Ok") =>
          \A slot \in OverrideSlots :
              (slot[2] = letter_type /\ slot[3] = letter_style)
              => LET table == OverrideTable(slot[1], slot[2], slot[3], slot[4])
                 IN  \A k \in 1..Len(table[1]) :
                         result.val # Arithmetic(slot, table[1][k])

\* convert('\u{1D49D}', Script, Normal): the character is itself the hole
\* of uppercase offset 1, and U+212C was returned
OverrideAlwaysWinsWitness ==
    /\ Returned("convert")
    /\ ch = 119965 /\ letter_type = "Script" /\ letter_style = "Normal"
    /\ info.offset = 1 /\ info.uppercase
    /\ result = Ok(8492)

\* the characters of a corner-case table, as a set
TableChars(table) == {table[2][k] : k \in 1..Len(table[2])}

\* the override code points only a lowercase identity is encoded to
LowercaseOnly ==
    TableChars(ScriptType_get_normal_corner_case(FALSE)) \cup {8462}

\* the override code points only an uppercase identity is encoded to
UppercaseOnly ==
    TableChars(ScriptType_get_normal_corner_case(TRUE))
    \cup TableChars(FrakturType_get_normal_corner_case)
    \cup TableChars(DoubleStruckType_get_bold_corner_case)

\* C24: case is symmetric between encode and reverse lookup.  Whenever
\* convert classified an override code point, the uppercase flag is false
\* for a code point that only lowercase identities are encoded to (U+212F,
\* U+210A, U+2134, U+210E) and true for one that only uppercase identities
\* are encoded to.
CaseSymmetric ==
    (Returned("convert") /\ info.kind = "Letter") =>
        /\ ch \in LowercaseOnly => ~info.uppercase
        /\ ch \in UppercaseOnly => info.uppercase

\* C25: family and emphasis are implied by the range.  Whenever convert
\* classified its character and returned Ok(d), classifying d gives the
\* requested family and emphasis.
FamilyAndEmphasisImplied ==
    (Returned("convert") /\ info.kind = "Letter" /\ result.tag = "Ok") =>
        LET back == get_letter_info(result.val)
        IN  /\ back.kind = "Letter"
            /\ back.letter_type = letter_type
            /\ back.letter_style = letter_style

\* the corner-case tables that list the code point c
TablesListing(c) ==
    {t \in 1..Len(OverrideTables) : c \in TableChars(OverrideTables[t])}

\* C26: the classification rules are disjoint.  No two contiguous ranges
\* share a code point, no range contains an override code point, and the
\* character of every call of convert matches at most one rule, range or
\* table.
RulesDisjoint ==
    /\ \A i, j \in 1..Len(RangeArms) :
          i # j => (RangeArms[i].hi < RangeArms[j].lo
                    \/ RangeArms[j].hi < RangeArms[i].lo)
    /\ \A t \in 1..Len(OverrideTables) :
          \A c \in TableChars(OverrideTables[t]) : MatchingArms(c) = {}
    /\ Returned("convert") =>
          Cardinality(MatchingArms(ch)) + Cardinality(TablesListing(ch)) <= 1

\* convert on U+1D419, the last code point of the bold uppercase range,
\* next to the first of the bold lowercase range: one rule matched
RulesDisjointWitness ==
    /\ Returned("convert")
    /\ ch = 119833
    /\ Cardinality(MatchingArms(ch)) = 1
    /\ info.offset = 25 /\ info.uppercase /\ info.letter_style = "Bold"

\* the sequence is strictly ascending
IsSorted(v) == \A k \in 1..(Len(v) - 1) : v[k] < v[k + 1]

\* C27: binary-search precondition.  In every corner-case table the offset
\* list, searched when encoding, is strictly ascending and as long as the
\* code-point list; and when a call of convert reached the fallback arm, the
\* three code-point lists it searched (Script uppercase, Script lowercase,
\* Fraktur uppercase) are strictly ascending.
SearchedVectorsSorted ==
    /\ \A t \in 1..Len(OverrideTables) :
          /\ IsSorted(OverrideTables[t][1])
          /\ Len(OverrideTables[t][1]) = Len(OverrideTables[t][2])
    /\ (Returned("convert") /\ MatchingArms(ch) = {}) =>
          /\ IsSorted(ScriptType_get_normal_corner_case(TRUE)[2])
          /\ IsSorted(ScriptType_get_normal_corner_case(FALSE)[2])
          /\ IsSorted(FrakturType_get_normal_corner_case[2])

\* C28: convert is idempotent for a fixed target.  Whenever convert
\* returned Ok(d), converting d to the same family and emphasis returns
\* Ok(d).
Idempotent ==
    (Returned("convert") /\ result.tag = "Ok") =>
        convert(result.val, letter_type, letter_style) = Ok(result.val)

\* the unstyled ranges: A-Z, a-z, 0-9, U+0391..U+03AA, U+03B1..U+03D0
PlainRanges ==
    (65..90) \cup (97..122) \cup (48..57) \cup (913..938) \cup (945..976)

\* C29: plain characters are fixed points of the plain style.  Whenever
\* convert was called on a character of an unstyled range with Serif Normal,
\* it returned that character.
PlainFixedPoints ==
    (/\ Returned("convert")
     /\ ch \in PlainRanges
     /\ letter_type = "Serif" /\ letter_style = "Normal")
    => result = Ok(ch)

\* the two calls have the same arguments
SameArguments(a, b) ==
    /\ a.ch = b.ch
    /\ a.letter_type = b.letter_type
    /\ a.letter_style = b.letter_style

\* C30: convert is stateless.  Among concurrent callers, every result is
\* the value of convert on the call's own arguments, whatever the other
\* threads are doing; it is the result every earlier call with the same
\* arguments returned, and any two calls with the same arguments have the
\* same result.
Stateless ==
    /\ \A t \in Threads :
          callers[t].pc = "returned" =>
              /\ callers[t].result
                   = convert(callers[t].ch, callers[t].letter_type,
                             callers[t].letter_style)
              /\ \A h \in history :
                    SameArguments(h, callers[t]) => h.result = callers[t].result
    /\ \A g, h \in history : SameArguments(g, h) => g.result = h.result

\* thread 1 has the result of convert('h', Serif, Italic) while thread 2
\* is between the two steps of convert('5', Script, Normal), after the same
\* call as thread 1's and another one have returned
StatelessWitness ==
    /\ callers[1].pc = "returned"
    /\ callers[1].ch = 104 /\ callers[1].letter_type = "Serif"
    /\ callers[1].letter_style = "Italic"
    /\ callers[1].result = Ok(8462)
    /\ callers[2].pc = "encode" /\ callers[2].ch = 53
    /\ callers[2].letter_type = "Script"
    /\ \E h \in history : SameArguments(h, callers[1])
    /\ \E h \in history : ~SameArguments(h, callers[1])

=============================================================================
